---- MODULE Spec2Model ----
(***************************************************************************)
(* Model of the session manager of deployments/claude-agent                *)
(* (src/agent_manager.py): AgentSession, AgentManager and the tenacity     *)
(* retry wrapper around AgentManager.process_request.                      *)
(*                                                                         *)
(* The manager runs on one asyncio event loop: the code between two awaits *)
(* that really suspend (the provider call, the backoff sleep, the          *)
(* reaper's sleep, awaiting the cancelled reaper task) runs atomically.    *)
(* session_lock is never held across such a suspension, so every           *)
(* "async with self.session_lock" block is one atomic step.                *)
(***************************************************************************)
EXTENDS Integers, Sequences, FiniteSets, TLC

(* ---- bounds of the model ---- *)
MaxTime == 1        \* the clock time.time() runs over 0..MaxTime
MaxCreated == 3     \* session objects ever created (uuid4 values handed out)
MaxCalls == 2       \* process_request / stream_response invocations, possibly overlapping
MaxCallsInShutdown == 1   \* of these, how many a run with a shutdown in it has
MaxErrors == 3      \* provider failures in one run, over all invocations
MaxCreatedInCalls == 2    \* of the MaxCreated sessions, how many a run with an invocation in it has
MaxAttemptNumber == 6     \* attempt numbers the backoff policy is evaluated for

(* ---- parameters and constants of the program ---- *)
max_concurrent_sessions == 2   \* AgentManager.__init__ argument
session_timeout == 0           \* AgentManager.__init__ argument
MaxAttempts == 3               \* stop_after_attempt(3)
WaitMultiplier == 1            \* wait_exponential(multiplier=1, ...)
WaitMin == 2                   \* wait_exponential(min=2)
WaitMax == 10                  \* wait_exponential(max=10)

Users == {"alice"}
Prompts == {"Hello"}
NoSession == 0                  \* an id that was never handed out
Calls == 1..MaxCalls
\* type(e).__name__ of what the provider raises
ErrorKinds == {"RateLimitError", "AuthenticationError"}

(* Provider replies: response.content is a list of blocks, only some of    *)
(* which carry a text attribute; response.usage reports the two counts.    *)
TextBlock(t) == [type |-> "text", text |-> t]
ToolUseBlock == [type |-> "tool_use"]
Responses ==
    { [content |-> <<TextBlock("Hel"), ToolUseBlock, TextBlock("lo!")>>,
       usage |-> [input_tokens |-> 1, output_tokens |-> 2]] }

(* Provider streams: the fragments of stream.text_stream and the usage of  *)
(* the final message.                                                      *)
Streams ==
    { [text_stream |-> <<"Hel", "lo!">>,
       usage |-> [input_tokens |-> 1, output_tokens |-> 2]] }

VARIABLES
    sessions,          \* keys of AgentManager.sessions (id -> the object with that id)
    objects,           \* the AgentSession objects that are still referenced, by session_id
    uuids,             \* how many ids uuid.uuid4() has handed out
    stats,             \* AgentManager.stats
    now,               \* time.time()
    calls,             \* process_request / stream_response invocations in progress or over
    is_shutting_down,  \* AgentManager.is_shutting_down
    cleanup_task,      \* the background reaper task: "sleeping", "cancelling", "done"
    shutdown_pc,       \* shutdown(): "idle", "awaiting" (the reaper task), "done"
    ret,               \* what the last create_session call returned or raised
    expired,           \* the ids the last cleanup pass found expired (its local "expired")
    session_lock,      \* AgentManager.session_lock: "free", or the task that holds it
    task_pc,           \* where each caller of create_session / delete_session stands
    fn                 \* arguments and results of the pure expressions of the pipelines

\* the variables only the lock-level and the expression-level specifications use
aux == <<session_lock, task_pc, fn>>

vars == <<sessions, objects, uuids, stats, now, calls, is_shutting_down,
          cleanup_task, shutdown_pc, ret, expired, session_lock, task_pc, fn>>

(* ---- AgentSession ---- *)
NewSession(sid, user) ==
    [session_id |-> sid,
     user_id |-> user,
     last_activity |-> now,
     message_history |-> <<>>,
     token_usage |-> [input |-> 0, output |-> 0, total |-> 0]]

\* a slip: the message is put at the head of the list
add_message_at_head(s, role, content) ==
    [s EXCEPT !.message_history = <<[role |-> role, content |-> content]>> \o @,
              !.last_activity = now]

add_message(s, role, content) ==
    [s EXCEPT !.message_history = Append(@, [role |-> role, content |-> content]),
              !.last_activity = now]

\* a slip: total is bumped by the reply's input count instead of being recomputed
update_token_usage_stale_total(s, usage) ==
    [s EXCEPT !.token_usage =
        [input |-> s.token_usage.input + usage.input_tokens,
         output |-> s.token_usage.output + usage.output_tokens,
         total |-> s.token_usage.total + usage.input_tokens]]

\* a slip: the counters are set to the reply's counts instead of being raised by them
update_token_usage_overwrites(s, usage) ==
    [s EXCEPT !.token_usage =
        [input |-> usage.input_tokens, output |-> usage.output_tokens,
         total |-> usage.input_tokens + usage.output_tokens]]

update_token_usage(s, usage) ==
    LET i == s.token_usage.input + usage.input_tokens
        o == s.token_usage.output + usage.output_tokens
    IN [s EXCEPT !.token_usage = [input |-> i, output |-> o, total |-> i + o]]

\* a slip: >= where the code has >
is_expired_at_timeout(s, timeout) == (now - s.last_activity) >= timeout

is_expired(s, timeout) == (now - s.last_activity) > timeout

(* ---- AgentManager: store ---- *)
Expired == {sid \in sessions : is_expired(objects[sid], session_timeout)}

\* a slip: the pass collects the expired ids and deletes none
SessionsAfterCleanup_no_delete == sessions

\* _cleanup_expired_sessions_sync: the keys left in the map
SessionsAfterCleanup == sessions \ Expired

\* ... and the stats it leaves (active_sessions is refreshed only if something expired)
StatsAfterCleanup ==
    IF Expired # {}
    THEN [stats EXCEPT !.active_sessions = Cardinality(SessionsAfterCleanup)]
    ELSE stats

\* a slip: > where the code has >=
AtCapacity_off_by_one(keys) == Cardinality(keys) > max_concurrent_sessions

\* the capacity test of create_session, on the map as it is after the inline cleanup
AtCapacity(keys) == Cardinality(keys) >= max_concurrent_sessions

\* uuid.uuid4(): an id no object ever had
FreshId == uuids + 1

\* An AgentSession object lives as long as something refers to it: the map, or
\* the local variable "session" of an invocation that has not returned yet.
Referenced(keys, cs) ==
    keys \cup {cs[c].session_id :
                   c \in {d \in DOMAIN cs : cs[d].pc \in {"calling", "streaming", "final"}}}

Live(objs, keys, cs) ==
    [sid \in (DOMAIN objs) \cap Referenced(keys, cs) |-> objs[sid]]

\* a slip: the session is counted before the capacity test
create_session_counts_refused(user) ==
    /\ UNCHANGED <<now, calls, is_shutting_down, cleanup_task, shutdown_pc>>
    /\ LET full == AtCapacity(sessions)
           keys == IF full THEN SessionsAfterCleanup ELSE sessions
           st == IF full THEN StatsAfterCleanup ELSE stats
       IN /\ \/ AtCapacity(keys)
             \/ /\ FreshId <= MaxCreated
                /\ (\E c \in DOMAIN calls : calls[c].pc # "idle") => FreshId <= MaxCreatedInCalls
          /\ expired' = IF full THEN Expired ELSE expired
          /\ IF AtCapacity(keys)
             THEN /\ sessions' = keys
                  /\ stats' = [st EXCEPT !.total_sessions = @ + 1]
                  /\ uuids' = uuids
                  /\ objects' = Live(objects, sessions', calls')
                  /\ ret' = [error |-> "MaxSessions", session_id |-> NoSession]
             ELSE /\ sessions' = keys \cup {FreshId}
                  /\ uuids' = FreshId
                  /\ objects' = Live((FreshId :> NewSession(FreshId, user)) @@ objects,
                                     sessions', calls')
                  /\ stats' = [st EXCEPT !.total_sessions = @ + 1,
                                         !.active_sessions = Cardinality(keys) + 1]
                  /\ ret' = [error |-> "none", session_id |-> FreshId]

create_session(user) ==
    /\ UNCHANGED <<now, calls, is_shutting_down, cleanup_task, shutdown_pc>>
    /\ LET full == AtCapacity(sessions)
           keys == IF full THEN SessionsAfterCleanup ELSE sessions
           st == IF full THEN StatsAfterCleanup ELSE stats
       IN /\ \/ AtCapacity(keys)
             \/ /\ FreshId <= MaxCreated
                /\ (\E c \in DOMAIN calls : calls[c].pc # "idle") => FreshId <= MaxCreatedInCalls
          /\ expired' = IF full THEN Expired ELSE expired
          /\ IF AtCapacity(keys)
             THEN /\ sessions' = keys
                  /\ stats' = st
                  /\ uuids' = uuids
                  /\ objects' = Live(objects, sessions', calls')
                  /\ ret' = [error |-> "MaxSessions", session_id |-> NoSession]
             ELSE /\ sessions' = keys \cup {FreshId}
                  /\ uuids' = FreshId
                  /\ objects' = Live((FreshId :> NewSession(FreshId, user)) @@ objects,
                                     sessions', calls')
                  /\ stats' = [st EXCEPT !.total_sessions = @ + 1,
                                         !.active_sessions = Cardinality(keys) + 1]
                  /\ ret' = [error |-> "none", session_id |-> FreshId]

\* a slip: the counter is refreshed outside the "if", by decrementing it
StatsAfterDelete_always_decrements(sid) ==
    [stats EXCEPT !.active_sessions = @ - 1]

\* a slip: a deleted session is taken out of the lifetime count as well
StatsAfterDelete_uncounts(sid) ==
    IF sid \in sessions
    THEN [stats EXCEPT !.active_sessions = Cardinality(sessions \ {sid}),
                       !.total_sessions = @ - 1]
    ELSE stats

\* the stats delete_session leaves: active_sessions is refreshed to the new
\* size of the map only when the id was there
StatsAfterDelete(sid) ==
    IF sid \in sessions
    THEN [stats EXCEPT !.active_sessions = Cardinality(sessions \ {sid})]
    ELSE stats

delete_session(sid) ==
    /\ sessions' = IF sid \in sessions THEN sessions \ {sid} ELSE sessions
    /\ stats' = StatsAfterDelete(sid)
    /\ UNCHANGED <<uuids, now, calls, is_shutting_down, cleanup_task, shutdown_pc, ret, expired>>
    /\ objects' = Live(objects, sessions', calls')

\* one pass of the background task _cleanup_expired_sessions
ReapPass ==
    /\ cleanup_task = "sleeping"
    /\ ~is_shutting_down
    /\ sessions' = SessionsAfterCleanup
    /\ stats' = StatsAfterCleanup
    /\ expired' = Expired
    /\ UNCHANGED <<uuids, now, calls, is_shutting_down, cleanup_task, shutdown_pc, ret>>
    /\ objects' = Live(objects, sessions', calls')

(* ---- one invocation of process_request or stream_response ---- *)
NoUsage == [input_tokens |-> 0, output_tokens |-> 0, total_tokens |-> 0]

IdleCall ==
    [op |-> "none", pc |-> "idle", session_id |-> NoSession, prompt |-> "",
     attempt |-> 0,          \* tenacity's attempt_number
     provider_calls |-> 0,   \* times messages.create / messages.stream was invoked
     known |-> FALSE,        \* the first lookup found the session
     error |-> "none",       \* what the invocation raised to its caller
     cause |-> "none",       \* the exception of the last failed attempt
     content |-> "",         \* content / accumulated_content
     usage |-> NoUsage,
     message_count |-> 0,
     stream |-> <<>>,        \* fragments the provider has still to send
     events |-> <<>>]        \* what the generator has yielded

(* ---- tenacity: @retry(stop_after_attempt(3), wait_exponential(1, 2, 10)) ---- *)
RECURSIVE Pow2(_)
Pow2(n) == IF n = 0 THEN 1 ELSE 2 * Pow2(n - 1)

Min(a, b) == IF a < b THEN a ELSE b
Max(a, b) == IF a > b THEN a ELSE b

\* a slip: the floor is not applied
wait_exponential_no_floor(attempt_number) ==
    Min(WaitMultiplier * Pow2(attempt_number - 1), WaitMax)

\* the sleep after the given failed attempt
wait_exponential(attempt_number) ==
    Max(Max(0, WaitMin), Min(WaitMultiplier * Pow2(attempt_number - 1), WaitMax))

\* a slip: one attempt too many before giving up
AfterException_one_more(cr, exc) ==
    IF cr.attempt > MaxAttempts
    THEN [cr EXCEPT !.pc = "done", !.error = "RetryError", !.cause = exc]
    ELSE [cr EXCEPT !.pc = "backoff", !.cause = exc]

\* An attempt of call record cr raised exc. The default retry condition retries
\* whatever was raised until stop_after_attempt says stop; then RetryError is
\* raised in its place (reraise is not set).
AfterException(cr, exc) ==
    IF cr.attempt >= MaxAttempts
    THEN [cr EXCEPT !.pc = "done", !.error = "RetryError", !.cause = exc]
    ELSE [cr EXCEPT !.pc = "backoff", !.cause = exc]

(* ---- AgentManager.process_request ---- *)
\* the text of a reply: the concatenation of the blocks that have a text attribute
RECURSIVE Content(_)
Content(blocks) ==
    IF blocks = <<>> THEN ""
    ELSE (IF "text" \in DOMAIN Head(blocks) THEN Head(blocks).text ELSE "")
         \o Content(Tail(blocks))

UsageOf(u) ==
    [input_tokens |-> u.input_tokens, output_tokens |-> u.output_tokens,
     total_tokens |-> u.input_tokens + u.output_tokens]

\* a slip: message_history is one list shared by all AgentSession objects
Attempt_shared_history(c, cr) ==
    IF cr.session_id \in sessions
    THEN /\ calls' = [calls EXCEPT ![c] = [cr EXCEPT !.pc = "calling"]]
         /\ objects' = [o \in DOMAIN objects |-> add_message(objects[o], "user", cr.prompt)]
    ELSE /\ calls' = [calls EXCEPT ![c] = AfterException(cr, "SessionNotFound")]
         /\ objects' = objects

\* the body of process_request up to its await: the lookup and, when it
\* succeeds, the append of the user message
Attempt(c, cr) ==
    IF cr.session_id \in sessions
    THEN /\ calls' = [calls EXCEPT ![c] = [cr EXCEPT !.pc = "calling"]]
         /\ objects' = [objects EXCEPT ![cr.session_id] = add_message(@, "user", cr.prompt)]
    ELSE /\ calls' = [calls EXCEPT ![c] = AfterException(cr, "SessionNotFound")]
         /\ objects' = objects

\* the invocations made so far
Started == {c \in Calls : calls[c].pc # "idle"}

\* the next free invocation slot (slots are used in order, each once)
Free(c) ==
    /\ calls[c].pc = "idle"
    /\ \A d \in Calls : d < c => calls[d].pc # "idle"
    /\ shutdown_pc # "idle" => Cardinality(Started) < MaxCallsInShutdown
    /\ uuids <= MaxCreatedInCalls

\* a caller invokes process_request(session_id, request): the first attempt
process_request(c, sid, prompt) ==
    /\ Free(c)
    /\ Attempt(c, [IdleCall EXCEPT !.op = "request", !.session_id = sid,
                                   !.prompt = prompt, !.attempt = 1,
                                   !.known = (sid \in sessions)])
    /\ UNCHANGED <<sessions, uuids, stats, now, is_shutting_down, cleanup_task,
                   shutdown_pc, ret, expired>>

\* the backoff sleep is over: tenacity runs the function again
RetryAttempt(c) ==
    /\ calls[c].pc = "backoff"
    /\ Attempt(c, [calls[c] EXCEPT !.attempt = @ + 1])
    /\ UNCHANGED <<sessions, uuids, stats, now, is_shutting_down, cleanup_task,
                   shutdown_pc, ret, expired>>

\* a slip: the reply is stored and its usage is not folded in
SessionAfterReply_no_usage(s, content, usage) == add_message(s, "assistant", content)

\* the session object after a reply was received: assistant message, then usage
SessionAfterReply(s, content, usage) ==
    update_token_usage(add_message(s, "assistant", content), usage)

\* the global counters after a reply was received
StatsAfterReply(usage) ==
    [stats EXCEPT !.total_requests = @ + 1,
                  !.total_tokens = @ + usage.total_tokens]

\* client.messages.create returns
ProviderReturns(c, response) ==
    /\ calls[c].op = "request"
    /\ calls[c].pc = "calling"
    /\ LET sid == calls[c].session_id
           content == Content(response.content)
           usage == UsageOf(response.usage)
           session == SessionAfterReply(objects[sid], content, usage)
       IN /\ UNCHANGED <<sessions, uuids, now, is_shutting_down, cleanup_task,
                         shutdown_pc, ret, expired>>
          /\ stats' = StatsAfterReply(usage)
          /\ calls' = [calls EXCEPT ![c] =
                          [@ EXCEPT !.pc = "done", !.provider_calls = @ + 1,
                                    !.cause = "none", !.content = content,
                                    !.usage = usage,
                                    !.message_count = Len(session.message_history)]]
          /\ objects' = Live([objects EXCEPT ![sid] = session], sessions', calls')

\* a slip: the handler drops the session whose request failed
SessionsAfterError_teardown(sid) == sessions \ {sid}

\* a slip: the handler stores the session of the failed request in the map again
SessionsAfterError_restores(sid) == sessions \cup {sid}

\* the map after the except block of process_request ran for session sid:
\* the block counts and logs, it removes nothing
SessionsAfterError(sid) == sessions

\* the provider failures counted so far
RECURSIVE SumErrors(_)
SumErrors(S) ==
    IF S = {} THEN 0
    ELSE LET k == CHOOSE x \in S : TRUE
         IN stats.errors[k] + SumErrors(S \ {k})

\* a slip: the failed attempt is counted as a request as well
StatsAfterError_counts_request(kind) ==
    [stats EXCEPT !.errors[kind] = @ + 1, !.total_requests = @ + 1]

\* the global counters after the except block of process_request
StatsAfterError(kind) == [stats EXCEPT !.errors[kind] = @ + 1]

\* client.messages.create raises: the handler counts it and re-raises to tenacity
ProviderRaises(c, kind) ==
    /\ calls[c].op = "request"
    /\ calls[c].pc = "calling"
    /\ SumErrors(ErrorKinds) < MaxErrors
    /\ stats' = StatsAfterError(kind)
    /\ calls' = [calls EXCEPT ![c] =
                    AfterException([@ EXCEPT !.provider_calls = @ + 1], kind)]
    /\ sessions' = SessionsAfterError(calls[c].session_id)
    /\ UNCHANGED <<uuids, now, is_shutting_down, cleanup_task, shutdown_pc, ret, expired>>
    /\ objects' = Live(objects, sessions', calls')

(* ---- AgentManager.stream_response ---- *)
TextEvent(text) == [type |-> "text", data |-> text]
DoneEvent == [type |-> "done", data |-> "[DONE]"]
ErrorEvent(kind) == [type |-> "error", data |-> kind]

\* first iteration of the generator: the lookup (outside the try), the user
\* message, and the opening of the provider stream
stream_response(c, sid, prompt, s) ==
    /\ Free(c)
    /\ LET cr == [IdleCall EXCEPT !.op = "stream", !.session_id = sid,
                                  !.prompt = prompt, !.attempt = 1,
                                  !.known = (sid \in sessions)]
       IN IF sid \in sessions
          THEN /\ calls' = [calls EXCEPT ![c] =
                               [cr EXCEPT !.pc = "streaming", !.provider_calls = 1,
                                          !.stream = s.text_stream, !.usage = UsageOf(s.usage)]]
               /\ objects' = [objects EXCEPT ![sid] = add_message(@, "user", prompt)]
          ELSE /\ calls' = [calls EXCEPT ![c] =
                               [cr EXCEPT !.pc = "done", !.error = "SessionNotFound",
                                          !.cause = "SessionNotFound"]]
               /\ objects' = objects
    /\ UNCHANGED <<sessions, uuids, stats, now, is_shutting_down, cleanup_task,
                   shutdown_pc, ret, expired>>

\* a slip: the fragment is put in front of what was accumulated
StreamText_prepends(c) ==
    /\ calls[c].pc = "streaming"
    /\ calls[c].stream # <<>>
    /\ calls' = [calls EXCEPT ![c] =
                    [@ EXCEPT !.content = Head(calls[c].stream) \o @,
                              !.events = Append(@, TextEvent(Head(calls[c].stream))),
                              !.stream = Tail(@)]]
    /\ UNCHANGED <<sessions, objects, uuids, stats, now, is_shutting_down, cleanup_task,
                   shutdown_pc, ret, expired>>

\* a fragment arrives: it is accumulated and yielded to the consumer
StreamText(c) ==
    /\ calls[c].pc = "streaming"
    /\ calls[c].stream # <<>>
    /\ calls' = [calls EXCEPT ![c] =
                    [@ EXCEPT !.content = @ \o Head(calls[c].stream),
                              !.events = Append(@, TextEvent(Head(calls[c].stream))),
                              !.stream = Tail(@)]]
    /\ UNCHANGED <<sessions, objects, uuids, stats, now, is_shutting_down, cleanup_task,
                   shutdown_pc, ret, expired>>

\* text_stream is exhausted: the assistant message is appended, then the
\* generator awaits stream.get_final_message()
StreamEnds(c) ==
    /\ calls[c].pc = "streaming"
    /\ calls[c].stream = <<>>
    /\ objects' = [objects EXCEPT ![calls[c].session_id] =
                      add_message(@, "assistant", calls[c].content)]
    /\ calls' = [calls EXCEPT ![c].pc = "final"]
    /\ UNCHANGED <<sessions, uuids, stats, now, is_shutting_down, cleanup_task,
                   shutdown_pc, ret, expired>>

\* get_final_message returns: the usage is folded into the session and the
\* sentinel is yielded
StreamFinal(c) ==
    /\ calls[c].pc = "final"
    /\ sessions' = sessions
    /\ calls' = [calls EXCEPT ![c] =
                    [@ EXCEPT !.pc = "done", !.events = Append(@, DoneEvent)]]
    /\ objects' = Live([objects EXCEPT ![calls[c].session_id] =
                            update_token_usage(@, calls[c].usage)],
                       sessions', calls')
    /\ UNCHANGED <<uuids, stats, now, is_shutting_down, cleanup_task, shutdown_pc, ret, expired>>

\* a slip: the handler opens the provider's stream again instead of stopping
StreamRaises_reopens(c, kind) ==
    /\ calls[c].pc \in {"streaming", "final"}
    /\ SumErrors(ErrorKinds) < MaxErrors
    /\ stats' = [stats EXCEPT !.errors[kind] = @ + 1]
    /\ calls' = [calls EXCEPT ![c] =
                    [@ EXCEPT !.pc = "streaming", !.cause = kind,
                              !.provider_calls = @ + 1]]
    /\ UNCHANGED <<sessions, uuids, now, is_shutting_down, cleanup_task,
                   shutdown_pc, ret, expired>>
    /\ objects' = Live(objects, sessions', calls')

\* a slip: the handler counts and logs the failure and yields nothing
StreamRaises_silent(c, kind) ==
    /\ calls[c].pc \in {"streaming", "final"}
    /\ SumErrors(ErrorKinds) < MaxErrors
    /\ stats' = [stats EXCEPT !.errors[kind] = @ + 1]
    /\ calls' = [calls EXCEPT ![c] = [@ EXCEPT !.pc = "done", !.cause = kind]]
    /\ UNCHANGED <<sessions, uuids, now, is_shutting_down, cleanup_task,
                   shutdown_pc, ret, expired>>
    /\ objects' = Live(objects, sessions', calls')

\* the provider raises while the stream is open or while the final message is
\* awaited: the handler counts it and yields one error event
StreamRaises(c, kind) ==
    /\ calls[c].pc \in {"streaming", "final"}
    /\ SumErrors(ErrorKinds) < MaxErrors
    /\ stats' = [stats EXCEPT !.errors[kind] = @ + 1]
    /\ calls' = [calls EXCEPT ![c] =
                    [@ EXCEPT !.pc = "done", !.cause = kind,
                              !.events = Append(@, ErrorEvent(kind))]]
    /\ UNCHANGED <<sessions, uuids, now, is_shutting_down, cleanup_task,
                   shutdown_pc, ret, expired>>
    /\ objects' = Live(objects, sessions', calls')

(* ---- AgentManager.shutdown and the reaper task ---- *)
\* shutdown() up to "await self.cleanup_task". A task that is still running is
\* cancelled and awaited; a task that is already over is awaited without
\* suspending, and the sessions are cleared in the same step.
shutdown ==
    /\ shutdown_pc \in {"idle", "done"}
    /\ Cardinality(Started) <= MaxCallsInShutdown
    /\ is_shutting_down' = TRUE
    /\ IF cleanup_task = "done"
       THEN /\ sessions' = {}
            /\ shutdown_pc' = "done"
            /\ cleanup_task' = cleanup_task
       ELSE /\ cleanup_task' = "cancelling"
            /\ shutdown_pc' = "awaiting"
            /\ sessions' = sessions
    /\ UNCHANGED <<uuids, stats, now, calls, ret, expired>>
    /\ objects' = Live(objects, sessions', calls')

\* CancelledError is raised in the reaper's sleep: the task ends
ReaperCancelled ==
    /\ cleanup_task = "cancelling"
    /\ cleanup_task' = "done"
    /\ UNCHANGED <<sessions, objects, uuids, stats, now, calls, is_shutting_down,
                   shutdown_pc, ret, expired>>

\* is_ready(): the client is set in __init__ and never unset
is_ready == ~is_shutting_down

\* a slip: the sessions are cleared without awaiting the cancelled reaper
ShutdownClears_without_await ==
    /\ shutdown_pc = "awaiting"
    /\ sessions' = {}
    /\ shutdown_pc' = "done"
    /\ UNCHANGED <<uuids, stats, now, calls, is_shutting_down, cleanup_task, ret, expired>>
    /\ objects' = Live(objects, sessions', calls')

\* shutdown() after the reaper task is over: self.sessions.clear() under the lock
ShutdownClears ==
    /\ shutdown_pc = "awaiting"
    /\ cleanup_task = "done"
    /\ sessions' = {}
    /\ shutdown_pc' = "done"
    /\ UNCHANGED <<uuids, stats, now, calls, is_shutting_down, cleanup_task, ret, expired>>
    /\ objects' = Live(objects, sessions', calls')

Tick ==
    /\ now < MaxTime
    /\ now' = now + 1
    /\ UNCHANGED <<sessions, objects, uuids, stats, calls, is_shutting_down,
                   cleanup_task, shutdown_pc, ret, expired>>

\* the tasks that call create_session and delete_session
Callers == {"create", "delete"}

\* ... and the server's lifespan exit, which calls shutdown() as the task made
\* by the signal handler does; that task's position is in shutdown_pc
Tasks == Callers \cup {"lifespan"}

\* no expression is being evaluated
NoFn == <<>>

\* the manager after __init__
InitManager ==
    /\ sessions = {}
    /\ objects = <<>>
    /\ uuids = 0
    /\ stats = [total_requests |-> 0, total_tokens |-> 0, total_sessions |-> 0,
                active_sessions |-> 0, errors |-> [k \in ErrorKinds |-> 0]]
    /\ now = 0
    /\ calls = [c \in Calls |-> IdleCall]
    /\ is_shutting_down = FALSE
    /\ cleanup_task = "sleeping"
    /\ shutdown_pc = "idle"
    /\ ret = [error |-> "none", session_id |-> NoSession]
    /\ expired = {}
    /\ session_lock = "free"
    /\ task_pc = [t \in Tasks |-> "idle"]

Init ==
    /\ InitManager
    /\ fn = NoFn

\* the ids a caller can present: every id handed out so far, and one that never was
Ids == 0..uuids

Next ==
    \/ \E user \in Users : create_session(user) /\ UNCHANGED aux
    \/ \E sid \in Ids : delete_session(sid) /\ UNCHANGED aux
    \/ ReapPass /\ UNCHANGED aux
    \/ \E c \in Calls, sid \in Ids, prompt \in Prompts :
            process_request(c, sid, prompt) /\ UNCHANGED aux
    \/ \E c \in Calls : RetryAttempt(c) /\ UNCHANGED aux
    \/ \E c \in Calls, response \in Responses :
            ProviderReturns(c, response) /\ UNCHANGED aux
    \/ \E c \in Calls, kind \in ErrorKinds : ProviderRaises(c, kind) /\ UNCHANGED aux
    \/ \E c \in Calls, sid \in Ids, prompt \in Prompts, s \in Streams :
            stream_response(c, sid, prompt, s) /\ UNCHANGED aux
    \/ \E c \in Calls : StreamText(c) /\ UNCHANGED aux
    \/ \E c \in Calls : StreamEnds(c) /\ UNCHANGED aux
    \/ \E c \in Calls : StreamFinal(c) /\ UNCHANGED aux
    \/ \E c \in Calls, kind \in ErrorKinds : StreamRaises(c, kind) /\ UNCHANGED aux
    \/ shutdown /\ UNCHANGED aux
    \/ ReaperCancelled /\ UNCHANGED aux
    \/ ShutdownClears /\ UNCHANGED aux
    \/ Tick /\ UNCHANGED aux

Spec == Init /\ [][Next]_vars

(***************************************************************************)
(* The pure expressions of the pipelines: the backoff policy of the retry  *)
(* decorator and the system directive sent to the provider. An optional    *)
(* string is a sequence: None is <<>>, the string s is <<s>>.              *)
(***************************************************************************)
None == <<>>

\* Python truth value of an Optional[str]
Truthy(x) == x # None /\ x[1] # ""

\* Python "a or b"
Or(a, b) == IF Truthy(a) THEN a ELSE b

DefaultSystem == <<"You are a helpful AI assistant.">>

\* a slip: the session's directive is looked at first
SystemFor_session_first(request_system_prompt, session_system_prompt) ==
    Or(session_system_prompt, Or(request_system_prompt, DefaultSystem))

\* system=request.system_prompt or session.system_prompt or "You are a ..."
SystemFor(request_system_prompt, session_system_prompt) ==
    Or(request_system_prompt, Or(session_system_prompt, DefaultSystem))

SystemPrompts == {None, <<"">>, <<"Be brief.">>, <<"Be kind.">>}

FnInit ==
    /\ InitManager
    /\ fn \in [request_system_prompt : SystemPrompts,
                session_system_prompt : SystemPrompts,
                system : {None},
                waits : {<<>>}]

\* the directive is resolved for a call
ResolveSystem ==
    /\ fn.system = None
    /\ fn' = [fn EXCEPT !.system = SystemFor(fn.request_system_prompt,
                                              fn.session_system_prompt)]
    /\ UNCHANGED <<sessions, objects, uuids, stats, now, calls, is_shutting_down,
                   cleanup_task, shutdown_pc, ret, expired, session_lock, task_pc>>

\* one more attempt has failed: the wait before the next one is computed
NextWait ==
    /\ Len(fn.waits) < MaxAttemptNumber
    /\ fn' = [fn EXCEPT !.waits = Append(@, wait_exponential(Len(fn.waits) + 1))]
    /\ UNCHANGED <<sessions, objects, uuids, stats, now, calls, is_shutting_down,
                   cleanup_task, shutdown_pc, ret, expired, session_lock, task_pc>>

FnNext == ResolveSystem \/ NextWait

FnSpec == FnInit /\ [][FnNext]_vars

(***************************************************************************)
(* The store operations at the grain of session_lock. Every operation that *)
(* changes the map does it inside "async with self.session_lock"; here the *)
(* acquisition, the locked section and the release are separate steps, and *)
(* the tasks (a caller of create_session, a caller of delete_session, the  *)
(* reaper, shutdown) interleave freely, as they would on a thread pool.    *)
(* The reaper's position is in cleanup_task, shutdown's in shutdown_pc.    *)
(***************************************************************************)

\* a caller invokes create_session or delete_session and reaches "async with"
CallLocked(t) ==
    /\ task_pc[t] = "idle"
    /\ t = "create" => uuids < MaxCreated
    /\ task_pc' = [task_pc EXCEPT ![t] = "acquiring"]
    /\ UNCHANGED <<sessions, objects, uuids, stats, now, calls, is_shutting_down,
                   cleanup_task, shutdown_pc, ret, expired, session_lock, fn>>

\* a slip: the section is entered without taking the lock
AcquireLock_unguarded(t) ==
    /\ task_pc[t] = "acquiring"
    /\ session_lock' = t
    /\ task_pc' = [task_pc EXCEPT ![t] = "critical"]
    /\ UNCHANGED <<sessions, objects, uuids, stats, now, calls, is_shutting_down,
                   cleanup_task, shutdown_pc, ret, expired, fn>>

\* session_lock.acquire(): granted only while nobody holds the lock
AcquireLock(t) ==
    /\ task_pc[t] = "acquiring"
    /\ session_lock = "free"
    /\ session_lock' = t
    /\ task_pc' = [task_pc EXCEPT ![t] = "critical"]
    /\ UNCHANGED <<sessions, objects, uuids, stats, now, calls, is_shutting_down,
                   cleanup_task, shutdown_pc, ret, expired, fn>>

\* a slip: the inline pass takes session_lock itself, which its caller holds
CreateLocked_reacquires(user) ==
    /\ task_pc["create"] = "critical"
    /\ AtCapacity(sessions) => session_lock = "free"
    /\ create_session(user)
    /\ task_pc' = [task_pc EXCEPT !["create"] = "releasing"]
    /\ UNCHANGED <<session_lock, fn>>

\* the locked section of create_session, whether it returns or raises
CreateLocked(user) ==
    /\ task_pc["create"] = "critical"
    /\ create_session(user)
    /\ task_pc' = [task_pc EXCEPT !["create"] = "releasing"]
    /\ UNCHANGED <<session_lock, fn>>

\* the locked section of delete_session
DeleteLocked(sid) ==
    /\ task_pc["delete"] = "critical"
    /\ delete_session(sid)
    /\ task_pc' = [task_pc EXCEPT !["delete"] = "releasing"]
    /\ UNCHANGED <<session_lock, fn>>

\* the end of "async with": the lock is released
ReleaseLock(t) ==
    /\ task_pc[t] = "releasing"
    /\ session_lock' = "free"
    /\ task_pc' = [task_pc EXCEPT ![t] = "idle"]
    /\ UNCHANGED <<sessions, objects, uuids, stats, now, calls, is_shutting_down,
                   cleanup_task, shutdown_pc, ret, expired, fn>>

\* asyncio.sleep(60) is over
ReaperWakes ==
    /\ cleanup_task = "sleeping"
    /\ ~is_shutting_down
    /\ cleanup_task' = "acquiring"
    /\ UNCHANGED <<sessions, objects, uuids, stats, now, calls, is_shutting_down,
                   shutdown_pc, ret, expired, session_lock, task_pc, fn>>

ReaperAcquires ==
    /\ cleanup_task = "acquiring"
    /\ session_lock = "free"
    /\ session_lock' = "reaper"
    /\ cleanup_task' = "critical"
    /\ UNCHANGED <<sessions, objects, uuids, stats, now, calls, is_shutting_down,
                   shutdown_pc, ret, expired, task_pc, fn>>

\* _cleanup_expired_sessions_sync runs to its end under the lock
ReapLocked ==
    /\ cleanup_task = "critical"
    /\ sessions' = SessionsAfterCleanup
    /\ stats' = StatsAfterCleanup
    /\ expired' = Expired
    /\ objects' = Live(objects, sessions', calls)
    /\ cleanup_task' = "releasing"
    /\ UNCHANGED <<uuids, now, calls, is_shutting_down, shutdown_pc, ret,
                   session_lock, task_pc, fn>>

\* _cleanup_expired_sessions_sync raises an Exception part-way: some of the
\* expired sessions are deleted, the counter is not refreshed
ReapFails ==
    /\ cleanup_task = "critical"
    /\ \E deleted \in SUBSET Expired :
          /\ sessions' = sessions \ deleted
          /\ objects' = Live(objects, sessions', calls)
    /\ cleanup_task' = "raising"
    /\ UNCHANGED <<uuids, stats, now, calls, is_shutting_down, shutdown_pc, ret,
                   expired, session_lock, task_pc, fn>>

\* a slip: "if" where the code has "while": the task ends after one turn
AfterPass_once == "done"

\* the position of the reaper after one turn of its loop: "while not
\* self.is_shutting_down" is tested again
AfterPass == IF is_shutting_down THEN "done" ELSE "sleeping"

\* a slip: the try is around the loop, a failure ends the task
ReaperUnwinds_stops ==
    /\ cleanup_task \in {"releasing", "raising"}
    /\ session_lock' = "free"
    /\ cleanup_task' = IF cleanup_task = "raising" THEN "done" ELSE AfterPass
    /\ UNCHANGED <<sessions, objects, uuids, stats, now, calls, is_shutting_down,
                   shutdown_pc, ret, expired, task_pc, fn>>

\* the pass leaves "async with", normally or with the exception, which is
\* then logged: the lock is released and the loop goes on
ReaperUnwinds ==
    /\ cleanup_task \in {"releasing", "raising"}
    /\ session_lock' = "free"
    /\ cleanup_task' = AfterPass
    /\ UNCHANGED <<sessions, objects, uuids, stats, now, calls, is_shutting_down,
                   shutdown_pc, ret, expired, task_pc, fn>>

\* a slip: the cancellation ends the task wherever it stands
ReaperStops_anywhere ==
    /\ is_shutting_down
    /\ cleanup_task \in {"sleeping", "acquiring", "critical"}
    /\ cleanup_task' = "done"
    /\ UNCHANGED <<sessions, objects, uuids, stats, now, calls, is_shutting_down,
                   shutdown_pc, ret, expired, session_lock, task_pc, fn>>

\* cleanup_task.cancel() takes effect where the task is suspended: in its
\* sleep or in the acquisition of the lock; the task ends without the lock
ReaperStops ==
    /\ is_shutting_down
    /\ cleanup_task \in {"sleeping", "acquiring"}
    /\ cleanup_task' = "done"
    /\ UNCHANGED <<sessions, objects, uuids, stats, now, calls, is_shutting_down,
                   shutdown_pc, ret, expired, session_lock, task_pc, fn>>

\* shutdown(): the flag is raised and the reaper task is cancelled
ShutdownStarts ==
    /\ shutdown_pc = "idle"
    /\ is_shutting_down' = TRUE
    /\ shutdown_pc' = "awaiting"
    /\ UNCHANGED <<sessions, objects, uuids, stats, now, calls, cleanup_task, ret,
                   expired, session_lock, task_pc, fn>>

\* "await self.cleanup_task" returns: the task is over
ShutdownAwaited ==
    /\ shutdown_pc = "awaiting"
    /\ cleanup_task = "done"
    /\ shutdown_pc' = "acquiring"
    /\ UNCHANGED <<sessions, objects, uuids, stats, now, calls, is_shutting_down,
                   cleanup_task, ret, expired, session_lock, task_pc, fn>>

ShutdownAcquires ==
    /\ shutdown_pc = "acquiring"
    /\ session_lock = "free"
    /\ session_lock' = "shutdown"
    /\ shutdown_pc' = "critical"
    /\ UNCHANGED <<sessions, objects, uuids, stats, now, calls, is_shutting_down,
                   cleanup_task, ret, expired, task_pc, fn>>

\* self.sessions.clear() under the lock
ShutdownClearsLocked ==
    /\ shutdown_pc = "critical"
    /\ sessions' = {}
    /\ objects' = Live(objects, sessions', calls)
    /\ shutdown_pc' = "releasing"
    /\ UNCHANGED <<uuids, stats, now, calls, is_shutting_down, cleanup_task, ret,
                   expired, session_lock, task_pc, fn>>

ShutdownReleases ==
    /\ shutdown_pc = "releasing"
    /\ session_lock' = "free"
    /\ shutdown_pc' = "done"
    /\ UNCHANGED <<sessions, objects, uuids, stats, now, calls, is_shutting_down,
                   cleanup_task, ret, expired, task_pc, fn>>

\* shutdown() called once more, from the lifespan exit, before, while or after
\* the other invocation runs: the flag is set and cancel() is called again
LifespanShutdownStarts ==
    /\ task_pc["lifespan"] = "idle"
    /\ is_shutting_down' = TRUE
    /\ task_pc' = [task_pc EXCEPT !["lifespan"] = "awaiting"]
    /\ UNCHANGED <<sessions, objects, uuids, stats, now, calls, cleanup_task,
                   shutdown_pc, ret, expired, session_lock, fn>>

\* a slip: CancelledError is not caught and ends the invocation
LifespanShutdownAwaited_raises ==
    /\ task_pc["lifespan"] = "awaiting"
    /\ cleanup_task = "done"
    /\ task_pc' = [task_pc EXCEPT !["lifespan"] = "idle"]
    /\ UNCHANGED <<sessions, objects, uuids, stats, now, calls, is_shutting_down,
                   cleanup_task, shutdown_pc, ret, expired, session_lock, fn>>

\* "await self.cleanup_task" on a task that is over, cancelled or not: the
\* CancelledError it may raise is caught and passed
LifespanShutdownAwaited ==
    /\ task_pc["lifespan"] = "awaiting"
    /\ cleanup_task = "done"
    /\ task_pc' = [task_pc EXCEPT !["lifespan"] = "acquiring"]
    /\ UNCHANGED <<sessions, objects, uuids, stats, now, calls, is_shutting_down,
                   cleanup_task, shutdown_pc, ret, expired, session_lock, fn>>

LifespanShutdownClears ==
    /\ task_pc["lifespan"] = "critical"
    /\ sessions' = {}
    /\ objects' = Live(objects, sessions', calls)
    /\ task_pc' = [task_pc EXCEPT !["lifespan"] = "releasing"]
    /\ UNCHANGED <<uuids, stats, now, calls, is_shutting_down, cleanup_task,
                   shutdown_pc, ret, expired, session_lock, fn>>

LockNext ==
    \/ \E t \in Callers : CallLocked(t)
    \/ \E t \in Tasks : AcquireLock(t)
    \/ \E user \in Users : CreateLocked(user)
    \/ \E sid \in Ids : DeleteLocked(sid)
    \/ \E t \in Tasks : ReleaseLock(t)
    \/ ReaperWakes
    \/ ReaperAcquires
    \/ ReapLocked
    \/ ReapFails
    \/ ReaperUnwinds
    \/ ReaperStops
    \/ ShutdownStarts
    \/ ShutdownAwaited
    \/ ShutdownAcquires
    \/ ShutdownClearsLocked
    \/ ShutdownReleases
    \/ LifespanShutdownStarts
    \/ LifespanShutdownAwaited
    \/ LifespanShutdownClears
    \/ Tick /\ UNCHANGED aux

LockSpec == Init /\ [][LockNext]_vars

\* Inside a locked section there is no suspension point, so a task that is in
\* one runs on; the sleep of the reaper ends; asyncio.Lock wakes its waiters
\* in FIFO order, so a task that keeps waiting for the lock gets it.
FairLockSpec ==
    /\ LockSpec
    /\ WF_vars(\E user \in Users : CreateLocked(user))
    /\ WF_vars(\E sid \in Ids : DeleteLocked(sid))
    /\ WF_vars(\E t \in Tasks : ReleaseLock(t))
    /\ \A t \in Tasks : SF_vars(AcquireLock(t))
    /\ WF_vars(ReaperWakes)
    /\ SF_vars(ReaperAcquires)
    /\ WF_vars(ReapLocked \/ ReapFails)
    /\ WF_vars(ReaperUnwinds)
    /\ WF_vars(ReaperStops)
    /\ WF_vars(ShutdownAwaited)
    /\ SF_vars(ShutdownAcquires)
    /\ WF_vars(ShutdownClearsLocked)
    /\ WF_vars(ShutdownReleases)
    /\ WF_vars(LifespanShutdownAwaited)
    /\ WF_vars(LifespanShutdownClears)

\* ... and a reap pass does not fail every time it is run
FairReaperSpec == FairLockSpec /\ SF_vars(ReapLocked)

(***************************************************************************)
(* Properties                                                              *)
(***************************************************************************)

\* C1: in every reachable state the store holds at most
\* max_concurrent_sessions sessions.
C1_StoreBounded == Cardinality(sessions) <= max_concurrent_sessions

\* the store is full again after a slot was freed and refilled
C1_Witness ==
    /\ Cardinality(sessions) = max_concurrent_sessions
    /\ uuids > max_concurrent_sessions
    /\ ret = [error |-> "none", session_id |-> uuids]

\* C2: create_session raises the capacity error exactly when the store holds
\* capacity-many sessions and none of them is expired; otherwise it returns
\* an id that was never used, which is then in the store, owned by the caller.
C2_Refused ==
    /\ Cardinality(sessions) >= max_concurrent_sessions
    /\ \A sid \in sessions : now - objects[sid].last_activity <= session_timeout

C2_CreateOutcome ==
    [][\A user \in Users :
          create_session(user) =>
             /\ (ret'.error = "MaxSessions") <=> C2_Refused
             /\ ~C2_Refused =>
                   /\ ret'.error = "none"
                   /\ ret'.session_id \notin 0..uuids
                   /\ ret'.session_id \in sessions'
                   /\ objects'[ret'.session_id].user_id = user
                   /\ objects'[ret'.session_id].message_history = <<>>]_vars

\* a create was refused although slots had been freed and refilled before
C2_Witness ==
    /\ ret.error = "MaxSessions"
    /\ uuids > max_concurrent_sessions
    /\ Cardinality(sessions) = max_concurrent_sessions

\* C3: for every session total = input + output, and none of the three
\* counters ever decreases while the session lives.
C3_TotalIsSum ==
    \A sid \in DOMAIN objects :
        objects[sid].token_usage.total
            = objects[sid].token_usage.input + objects[sid].token_usage.output

C3_Usage ==
    /\ []C3_TotalIsSum
    /\ [][\A sid \in DOMAIN objects \cap DOMAIN objects' :
             /\ objects'[sid].token_usage.input >= objects[sid].token_usage.input
             /\ objects'[sid].token_usage.output >= objects[sid].token_usage.output
             /\ objects'[sid].token_usage.total >= objects[sid].token_usage.total]_vars

\* a session whose counters were updated twice
C3_Witness ==
    \E sid \in DOMAIN objects :
        /\ objects[sid].token_usage.input = 2
        /\ objects[sid].token_usage.output = 4
        /\ objects[sid].token_usage.total = 6

\* the invocations made on session sid
On(sid) == {c \in Calls : calls[c].op # "none" /\ calls[c].session_id = sid}

\* ... and those of them that returned normally (a stream: ended with the sentinel)
Succeeded(sid) ==
    {c \in On(sid) :
        /\ calls[c].pc = "done"
        /\ calls[c].error = "none"
        /\ calls[c].op = "stream" =>
              calls[c].events # <<>> /\ calls[c].events[Len(calls[c].events)] = DoneEvent}

\* C4: every process_request that returns successfully lengthens the history
\* by exactly 2, so after N successful calls on a fresh session the length is
\* 2N, which is also the message_count returned last.
C4_TwoMessagesPerCall ==
    \A sid \in sessions :
        (/\ On(sid) # {}
         /\ \A c \in On(sid) : calls[c].op = "request" /\ c \in Succeeded(sid))
        => /\ Len(objects[sid].message_history) = 2 * Cardinality(On(sid))
           /\ \E c \in On(sid) :
                 calls[c].message_count = Len(objects[sid].message_history)

RECURSIVE SumUsage(_, _)
SumUsage(S, field) ==
    IF S = {} THEN 0
    ELSE LET c == CHOOSE x \in S : TRUE
         IN calls[c].usage[field] + SumUsage(S \ {c}, field)

\* C5: a session's input and output counters are the sums of what the provider
\* reported for the invocations that succeeded on it, and the usage a
\* process_request returns is the provider's, with total = input + output.
C5_UsageIsSumOfReplies ==
    /\ \A sid \in DOMAIN objects :
          /\ objects[sid].token_usage.input = SumUsage(Succeeded(sid), "input_tokens")
          /\ objects[sid].token_usage.output = SumUsage(Succeeded(sid), "output_tokens")
    /\ \A c \in Calls :
          (calls[c].op = "request" /\ calls[c].pc = "done" /\ calls[c].error = "none")
          => \E r \in Responses :
                /\ calls[c].usage.input_tokens = r.usage.input_tokens
                /\ calls[c].usage.output_tokens = r.usage.output_tokens
                /\ calls[c].usage.total_tokens
                      = r.usage.input_tokens + r.usage.output_tokens

\* two process_request calls have succeeded on a session that is still stored
C5_Witness ==
    \E sid \in sessions :
        /\ Cardinality(Succeeded(sid)) = 2
        /\ \A c \in Succeeded(sid) : calls[c].op = "request"
        /\ objects[sid].token_usage.input = 2
        /\ objects[sid].token_usage.output = 4

\* the failing attempt of a request leaves its session in the store
FailureKeepsSession ==
    \A c \in Calls, kind \in ErrorKinds :
        (ProviderRaises(c, kind) /\ calls[c].session_id \in sessions)
        => calls[c].session_id \in sessions'

\* C6: when the provider fails on all 3 attempts of a process_request on a
\* stored session with an even-length history, the caller receives the
\* upstream error, the session stays in the store, its history has odd length
\* and no assistant reply was appended.
C6_ExhaustedRetries ==
    /\ [](\A c \in Calls :
            (/\ calls[c].op = "request"
             /\ calls[c].pc = "done"
             /\ calls[c].provider_calls = 3
             /\ calls[c].error # "none"
             /\ calls[c].session_id \in sessions
             /\ On(calls[c].session_id) = {c})
            => /\ calls[c].error \in ErrorKinds
               /\ Len(objects[calls[c].session_id].message_history) % 2 = 1
               /\ \A i \in DOMAIN objects[calls[c].session_id].message_history :
                     objects[calls[c].session_id].message_history[i].role = "user")
    /\ [][FailureKeepsSession]_vars

\* C7: a failed process_request leaves the session usable: the failure does
\* not remove it, and a later process_request on the same stored id reaches
\* the provider and, when the provider replies, returns that reply and
\* appends it as the assistant message.
FailedOn(sid, c) ==
    \E d \in Calls \ {c} :
        /\ calls[d].op = "request"
        /\ calls[d].pc = "done"
        /\ calls[d].error # "none"
        /\ calls[d].session_id = sid

C7_UsableAfterFailure ==
    [][/\ FailureKeepsSession
       /\ \A c \in Calls, sid \in sessions :
             (FailedOn(sid, c) /\ \E p \in Prompts : process_request(c, sid, p))
             => calls'[c].pc = "calling"
       /\ \A c \in Calls, r \in Responses :
             (/\ calls[c].session_id \in sessions
              /\ FailedOn(calls[c].session_id, c)
              /\ ProviderReturns(c, r))
             => /\ calls'[c].pc = "done"
                /\ calls'[c].error = "none"
                /\ calls'[c].content = Content(r.content)
                /\ LET h == objects'[calls[c].session_id].message_history
                   IN h[Len(h)] = [role |-> "assistant", content |-> Content(r.content)]]_vars

\* the first call failed on all attempts, the second one on the same stored
\* session came after them and was answered
C7_Witness ==
    /\ calls[1].op = "request" /\ calls[1].pc = "done"
    /\ calls[1].error # "none" /\ calls[1].provider_calls = 3
    /\ calls[2].op = "request" /\ calls[2].pc = "done" /\ calls[2].error = "none"
    /\ calls[2].session_id = calls[1].session_id
    /\ calls[2].session_id \in sessions
    /\ calls[2].content = "Hello!"
    /\ LET h == objects[calls[2].session_id].message_history
       IN /\ Len(h) = 5
          /\ h[4].role = "user"
          /\ h[5] = [role |-> "assistant", content |-> "Hello!"]

\* C8: one process_request invokes the provider's completion call at most 3
\* times, and stops at the first attempt that succeeds.
C8_AtMostThreeCalls ==
    /\ [](\A c \in Calls : calls[c].op = "request" => calls[c].provider_calls <= 3)
    /\ [][\A c \in Calls :
             /\ calls[c].pc = "done" => calls'[c] = calls[c]
             /\ \A r \in Responses : ProviderReturns(c, r) => calls'[c].pc = "done"]_vars

\* a request that was answered on its third attempt
C8_Witness ==
    \E c \in Calls :
        /\ calls[c].op = "request" /\ calls[c].pc = "done"
        /\ calls[c].error = "none" /\ calls[c].provider_calls = 3

\* C9: process_request on an id that is not in the store fails with the
\* session-not-found error, makes no provider call, and changes no session,
\* no store entry and no global counter.
C9_UnknownIdFailsNotFound ==
    /\ [](\A c \in Calls :
            (calls[c].op = "request" /\ ~calls[c].known /\ calls[c].pc = "done")
            => /\ calls[c].error = "SessionNotFound"
               /\ calls[c].provider_calls = 0)
    /\ [][\A c \in Calls :
             (calls'[c].op = "request" /\ ~calls'[c].known /\ calls'[c] # calls[c])
             => /\ sessions' = sessions
                /\ objects' = objects
                /\ stats' = stats]_vars

\* C10: session-not-found surfaces immediately: a process_request on an
\* unknown id does one lookup and fails, with no retry and no backoff wait.
C10_NotFoundNotRetried ==
    \A c \in Calls :
        (calls[c].op = "request" /\ ~calls[c].known)
        => calls[c].attempt <= 1 /\ calls[c].pc # "backoff"

\* the provider's non-retryable failures (malformed request, authentication)
FatalKinds == {"AuthenticationError"}

\* C11: only transient provider failures are retried: when the provider fails
\* with a fatal error, process_request ends at once with that error, after
\* exactly one provider call when the failure came on the first attempt.
C11_FatalNotRetried ==
    [][\A c \in Calls, kind \in FatalKinds :
          ProviderRaises(c, kind)
          => /\ calls'[c].pc = "done"
             /\ calls'[c].error = kind
             /\ calls[c].attempt = 1 => calls'[c].provider_calls = 1]_vars

\* C12: delete_session is idempotent: afterwards the id is absent and every
\* other session is untouched; on an id that is already absent it changes
\* neither the store nor any counter, so a second delete changes nothing.
C12_DeleteIdempotent ==
    [][\A sid \in Ids :
          delete_session(sid)
          => /\ sid \notin sessions'
             /\ sessions' = sessions \ {sid}
             /\ \A o \in sessions' : objects'[o] = objects[o]
             /\ sid \notin sessions
                   => sessions' = sessions /\ stats' = stats /\ objects' = objects]_vars

\* the first of two sessions is gone before any time has passed and with no
\* shutdown (only delete_session removes a session then); the other one is intact
C12_Witness ==
    /\ now = 0 /\ shutdown_pc = "idle" /\ expired = {}
    /\ uuids = 2
    /\ sessions = {2}
    /\ stats.active_sessions = 1
    /\ Len(objects[2].message_history) = 2

\* C13: a reap pass removes exactly the sessions whose idle time, now minus
\* last_activity, is strictly greater than the timeout; every session active
\* within the timeout is retained unchanged.
C13_ReapRemovesExactlyIdle ==
    [][ReapPass
       => /\ sessions' = {sid \in sessions :
                             now - objects[sid].last_activity <= session_timeout}
          /\ \A sid \in sessions' : objects'[sid] = objects[sid]]_vars

\* a background pass (no session was created since) found the first session
\* expired and removed it, and kept the second one, which was active at the
\* current time
C13_Witness ==
    /\ expired = {1}
    /\ uuids = 2
    /\ sessions = {2}
    /\ now = 1
    /\ objects[2].last_activity = 1
    /\ stats.active_sessions = 1

\* the messages one process_request has put into its session's history so far:
\* one user message per attempt that passed the lookup, and the reply
MessagesOf(c) ==
    calls[c].provider_calls
    + (IF calls[c].pc = "calling" THEN 1 ELSE 0)
    + (IF calls[c].pc = "done" /\ calls[c].error = "none" THEN 1 ELSE 0)

RECURSIVE SumMessages(_)
SumMessages(S) ==
    IF S = {} THEN 0
    ELSE LET c == CHOOSE x \in S : TRUE
         IN MessagesOf(c) + SumMessages(S \ {c})

\* C14: process_request calls running concurrently do not interfere: a call
\* whose provider call succeeds succeeds, the step touches no other call and
\* no other session, and every session's history and usage hold exactly the
\* messages and tokens of the calls made on that session.
C14_NoInterference ==
    /\ [](\A sid \in DOMAIN objects :
            (\A c \in On(sid) : calls[c].op = "request")
            => /\ Len(objects[sid].message_history) = SumMessages(On(sid))
               /\ \A i \in DOMAIN objects[sid].message_history :
                     \E c \in On(sid) :
                        objects[sid].message_history[i]
                           \in {[role |-> "user", content |-> calls[c].prompt],
                                [role |-> "assistant", content |-> calls[c].content]}
               /\ objects[sid].token_usage.total
                     = SumUsage(Succeeded(sid), "total_tokens"))
    /\ [][\A c \in Calls, r \in Responses :
             ProviderReturns(c, r)
             => /\ calls'[c].pc = "done"
                /\ calls'[c].error = "none"
                /\ calls'[c].content = Content(r.content)
                /\ \A d \in Calls \ {c} : calls'[d] = calls[d]
                /\ \A o \in DOMAIN objects' \ {calls[c].session_id} :
                      objects'[o] = objects[o]]_vars

\* the second call was answered while the first one, on another stored
\* session, was still waiting for the provider
C14_Witness ==
    /\ calls[1].op = "request" /\ calls[1].pc = "calling"
    /\ calls[2].op = "request" /\ calls[2].pc = "done" /\ calls[2].error = "none"
    /\ calls[1].session_id # calls[2].session_id
    /\ {calls[1].session_id, calls[2].session_id} \subseteq sessions
    /\ Len(objects[calls[1].session_id].message_history) = 1
    /\ Len(objects[calls[2].session_id].message_history) = 2
    /\ objects[calls[1].session_id].token_usage.total = 0
    /\ objects[calls[2].session_id].token_usage.total = 3

\* the text a consumer has received: the text events' data, in emission order
RECURSIVE EmittedText(_)
EmittedText(events) ==
    IF events = <<>> THEN ""
    ELSE (IF Head(events).type = "text" THEN Head(events).data ELSE "")
         \o EmittedText(Tail(events))

\* C15: when a stream completes successfully, the one assistant message it
\* appended to the session is the concatenation, in emission order, of exactly
\* the fragments that were emitted to the consumer.
C15_AssistantIsConcatenation ==
    /\ [][\A c \in Calls :
             /\ StreamEnds(c)
                => objects'[calls[c].session_id].message_history
                     = Append(objects[calls[c].session_id].message_history,
                              [role |-> "assistant",
                               content |-> EmittedText(calls[c].events)])
             /\ (StreamText(c) \/ StreamFinal(c))
                => \A o \in DOMAIN objects \cap DOMAIN objects' :
                      objects'[o].message_history = objects[o].message_history]_vars
    /\ [](\A c \in Calls :
            (calls[c].op = "stream" /\ c \in Succeeded(calls[c].session_id))
            => /\ calls[c].content = EmittedText(calls[c].events)
               /\ \E s \in Streams :
                     calls[c].events
                        = [i \in 1..Len(s.text_stream) |-> TextEvent(s.text_stream[i])]
                          \o <<DoneEvent>>)

\* a stream that emitted "Hel", "lo!" and the sentinel, and whose session
\* holds the prompt and the assistant message "Hello!"
C15_Witness ==
    \E c \in Calls :
        /\ calls[c].op = "stream" /\ calls[c].pc = "done"
        /\ calls[c].events = <<TextEvent("Hel"), TextEvent("lo!"), DoneEvent>>
        /\ calls[c].session_id \in sessions
        /\ objects[calls[c].session_id].message_history
              = <<[role |-> "user", content |-> "Hello"],
                  [role |-> "assistant", content |-> "Hello!"]>>

\* the events of a stream are text fragments followed by exactly one terminal
\* event: the sentinel, or the error event of the failure that ended it
OneTerminalEvent(c) ==
    LET ev == calls[c].events
    IN /\ ev # <<>>
       /\ \A i \in 1..(Len(ev) - 1) : ev[i].type = "text"
       /\ IF calls[c].cause \in ErrorKinds
          THEN ev[Len(ev)] = ErrorEvent(calls[c].cause)
          ELSE ev[Len(ev)] = DoneEvent

C17_FailedStreamLeavesUserOnly ==
    \A c \in Calls :
        (/\ calls[c].op = "stream" /\ calls[c].pc = "done"
         /\ calls[c].events # <<>>
         /\ calls[c].events[Len(calls[c].events)].type = "error"
         /\ On(calls[c].session_id) = {c}
         /\ calls[c].session_id \in DOMAIN objects)
        => /\ objects[calls[c].session_id].message_history
                 = <<[role |-> "user", content |-> calls[c].prompt]>>
           /\ objects[calls[c].session_id].token_usage
                 = [input |-> 0, output |-> 0, total |-> 0]

\* C18: stream_response never retries: one call opens the provider's stream
\* at most once, and any failure ends it.
C18_StreamNeverRetries ==
    /\ [](\A c \in Calls : calls[c].op = "stream" => calls[c].provider_calls <= 1)
    /\ [][\A c \in Calls, kind \in ErrorKinds :
             StreamRaises(c, kind)
             => /\ calls'[c].pc = "done"
                /\ calls'[c].provider_calls = calls[c].provider_calls]_vars

\* a stream that ended with the error event of a rate-limit failure, the kind
\* process_request would retry, after opening the provider's stream once
C18_Witness ==
    \E c \in Calls :
        /\ calls[c].op = "stream" /\ calls[c].pc = "done"
        /\ calls[c].provider_calls = 1
        /\ calls[c].events # <<>>
        /\ calls[c].events[Len(calls[c].events)] = ErrorEvent("RateLimitError")
        /\ stats.errors["RateLimitError"] = 1

\* C19: when a stream completes successfully, the final usage is added to the
\* session's counters and to the global request and token counters before
\* the sentinel is emitted.
C19_StreamUsageIsCounted ==
    [][\A c \in Calls :
          StreamFinal(c)
          => /\ calls[c].session_id \in DOMAIN objects'
                   => objects'[calls[c].session_id].token_usage.total
                        = objects[calls[c].session_id].token_usage.total
                          + calls[c].usage.total_tokens
             /\ stats'.total_requests = stats.total_requests + 1
             /\ stats'.total_tokens = stats.total_tokens + calls[c].usage.total_tokens]_vars

\* C20: total_requests and total_tokens change only when a process_request
\* attempt succeeds, by 1 and by that reply's input plus output tokens; every
\* other step leaves them unchanged.
C20_GlobalCountersOnlyOnSuccess ==
    [][/\ \A c \in Calls, r \in Responses :
             ProviderReturns(c, r)
             => /\ stats'.total_requests = stats.total_requests + 1
                /\ stats'.total_tokens
                      = stats.total_tokens + r.usage.input_tokens + r.usage.output_tokens
       /\ (~ \E c \in Calls, r \in Responses : ProviderReturns(c, r))
             => /\ stats'.total_requests = stats.total_requests
                /\ stats'.total_tokens = stats.total_tokens]_vars

\* a request answered on its second attempt and a completed stream: one
\* request and its three tokens were counted
C20_Witness ==
    \E c, d \in Calls :
        /\ calls[c].op = "request" /\ calls[c].pc = "done" /\ calls[c].error = "none"
        /\ calls[c].provider_calls = 2
        /\ calls[d].op = "stream" /\ d \in Succeeded(calls[d].session_id)
        /\ stats.total_requests = 1
        /\ stats.total_tokens = 3

\* C21: total_requests, total_tokens, total_sessions and every per-kind error
\* count never decrease in any step, and total_sessions is the number of
\* create_session calls that succeeded.
C21_LifetimeCounters ==
    /\ [](stats.total_sessions = uuids)
    /\ [][/\ stats'.total_requests >= stats.total_requests
          /\ stats'.total_tokens >= stats.total_tokens
          /\ stats'.total_sessions >= stats.total_sessions
          /\ \A k \in ErrorKinds : stats'.errors[k] >= stats.errors[k]
          /\ \A user \in Users :
                create_session(user)
                => stats'.total_sessions
                     = stats.total_sessions + (IF ret'.error = "none" THEN 1 ELSE 0)]_vars

\* two sessions were created, a request was answered after one failed attempt,
\* and both sessions are gone: the lifetime counters kept their values
C21_Witness ==
    /\ sessions = {}
    /\ stats.total_sessions = 2
    /\ stats.total_requests = 1
    /\ stats.total_tokens = 3
    /\ stats.errors["RateLimitError"] = 1

\* C22: stats.active_sessions equals the number of sessions in the store in
\* every state outside a critical section, that is after every completed
\* create, delete, reap pass and shutdown.
C22_ActiveEqualsStoreSize == stats.active_sessions = Cardinality(sessions)

\* C23: shutdown raises the flag first (is_ready is false from then on,
\* forever), then cancels and awaits the reaper, and clears the sessions only
\* after the reaper has terminated; when it returns the store is empty.
C23_ShutdownOrder ==
    /\ [](/\ shutdown_pc # "idle" => is_shutting_down /\ ~is_ready
          /\ cleanup_task # "sleeping" => is_shutting_down)
    /\ [][/\ is_shutting_down => is_shutting_down' /\ ~is_ready'
          /\ (shutdown_pc # "done" /\ shutdown_pc' = "done")
                => cleanup_task = "done" /\ sessions' = {}
          /\ (shutdown \/ ShutdownClears)
                => /\ is_shutting_down'
                   /\ sessions' # sessions => cleanup_task = "done"]_vars

\* shutdown has returned on a manager that held a session: the flag is up,
\* the reaper is over and the store is empty
C23_Witness ==
    /\ shutdown_pc = "done"
    /\ cleanup_task = "done"
    /\ is_shutting_down /\ ~is_ready
    /\ sessions = {}
    /\ stats.active_sessions = 1

\* the user messages in a history
RECURSIVE UserMessages(_)
UserMessages(h) ==
    IF h = <<>> THEN 0
    ELSE (IF Head(h).role = "user" THEN 1 ELSE 0) + UserMessages(Tail(h))

\* C28: when a process_request exhausts all its attempts, the error raised to
\* the caller is the last provider error itself, not a wrapper, and the
\* counter keyed by that error's kind was incremented by one for the call.
C28_LastErrorVerbatim ==
    \A c \in Calls :
        (/\ calls[c].op = "request" /\ calls[c].pc = "done"
         /\ calls[c].provider_calls = MaxAttempts
         /\ calls[c].error # "none"
         /\ Started = {c})
        => /\ calls[c].error = calls[c].cause
           /\ calls[c].error \in ErrorKinds
           /\ stats.errors[calls[c].error] = 1

\* C29: one process_request appends its prompt to the history as a user
\* message exactly once, however many attempts it makes; after exhausted
\* retries exactly that one unanswered user message has been added.
C29_PromptAppendedOnce ==
    \A c \in Calls :
        (/\ calls[c].op = "request" /\ calls[c].known
         /\ Started = {c}
         /\ calls[c].session_id \in DOMAIN objects)
        => /\ UserMessages(objects[calls[c].session_id].message_history) = 1
           /\ (calls[c].pc = "done" /\ calls[c].error # "none")
                 => objects[calls[c].session_id].message_history
                      = <<[role |-> "user", content |-> calls[c].prompt]>>

\* a directive counts as given when it is neither None nor the empty string
Given(d) == d # None /\ d # <<"">>

\* C27: the system directive sent to the provider is the per-call override
\* when one is given, otherwise the session's directive when one is set,
\* otherwise the default assistant directive.
C27_SystemPrecedence ==
    (fn # NoFn /\ fn.system # None)
    => fn.system = IF Given(fn.request_system_prompt) THEN fn.request_system_prompt
                   ELSE IF Given(fn.session_system_prompt) THEN fn.session_system_prompt
                   ELSE <<"You are a helpful AI assistant.">>

\* an override and a session directive were both given: the override was sent
C27_Witness ==
    /\ fn # NoFn
    /\ fn.request_system_prompt = <<"Be brief.">>
    /\ fn.session_system_prompt = <<"Be kind.">>
    /\ fn.system = <<"Be brief.">>

\* C30: the wait before each retry is a function of the attempt number alone
\* that is exponential (the multiplier times 2^(attempt - 1), clamped), never
\* less than 2 seconds, never more than 10, and non-decreasing from one retry
\* to the next.
C30_BackoffPolicy ==
    fn # NoFn
    => /\ \A i \in DOMAIN fn.waits :
             /\ fn.waits[i] >= 2
             /\ fn.waits[i] <= 10
             /\ fn.waits[i] = IF 2^(i - 1) < 2 THEN 2
                              ELSE IF 2^(i - 1) > 10 THEN 10
                              ELSE 2^(i - 1)
       /\ \A i, j \in DOMAIN fn.waits : i <= j => fn.waits[i] <= fn.waits[j]

\* the waits after attempts 1 to 6: floor, floor, 4, 8, ceiling, ceiling
C30_Witness == fn # NoFn /\ fn.waits = <<2, 2, 4, 8, 10, 10>>

\* the tasks that are inside a section protected by session_lock
InSection ==
    {t \in Tasks : task_pc[t] \in {"critical", "releasing"}}
        \cup (IF cleanup_task \in {"critical", "releasing", "raising"} THEN {"reaper"} ELSE {})
        \cup (IF shutdown_pc \in {"critical", "releasing"} THEN {"shutdown"} ELSE {})

\* C26: at most one of create_session, delete_session, a reap pass and the
\* clear of shutdown is inside its locked section at any time, and the map
\* gains or loses an entry only in a step of the task that is inside it.
C26_MutualExclusion ==
    /\ [](Cardinality(InSection) <= 1 /\ InSection \subseteq {session_lock})
    /\ [][sessions' # sessions => InSection # {} /\ InSection' = InSection]_vars

\* create_session has inserted under the lock while delete_session and the
\* reaper wait for it
C26_Witness ==
    /\ task_pc["create"] = "releasing"
    /\ sessions # {}
    /\ task_pc["delete"] = "acquiring"
    /\ cleanup_task = "acquiring"

\* C24: a failure inside a reap pass releases the lock and leaves the reaper
\* in its loop; unless shutdown is requested, a later pass is executed.
C24_FailureDoesNotStopLoop ==
    /\ [][cleanup_task = "raising" /\ cleanup_task' # "raising"
            => session_lock' = "free" /\ cleanup_task' = AfterPass]_vars
    /\ ((cleanup_task = "raising") ~> (cleanup_task = "critical" \/ is_shutting_down))

\* a pass under way after an earlier pass failed half-way: only a failed pass
\* leaves the counter behind the map while shutdown has not begun
C24_Witness ==
    /\ cleanup_task = "critical"
    /\ ~is_shutting_down
    /\ stats.active_sessions # Cardinality(sessions)

\* C25: once shutdown has cancelled the reaper the task ends, wherever it
\* was, and it ends without the lock; shutdown acquires the lock and returns.
C25_ReaperTerminates ==
    /\ [](cleanup_task = "done" => session_lock # "reaper")
    /\ (is_shutting_down ~> (cleanup_task = "done"))
    /\ ((shutdown_pc = "acquiring") ~> (shutdown_pc = "critical"))
    /\ ((shutdown_pc # "idle") ~> (shutdown_pc = "done"))

\* the reaper is cancelled while it holds the lock
C25_Witness ==
    /\ shutdown_pc = "awaiting"
    /\ cleanup_task = "critical"
    /\ session_lock = "reaper"

\* C31: an invocation that names a session idle for longer than the timeout
\* fails its lookup like one that names an unknown id, reaped or not.
C31_ExpiredIsNotFound ==
    [][\A c \in Calls :
          (/\ calls[c].pc = "idle"
           /\ calls'[c].pc # "idle"
           /\ \/ calls'[c].session_id \notin sessions
              \/ calls'[c].session_id \in Expired)
          => calls'[c].cause = "SessionNotFound"]_vars

\* s is a prefix of t
IsPrefix(s, t) == Len(s) <= Len(t) /\ SubSeq(t, 1, Len(s)) = s

\* C32: the history of a session object only grows at its end: in every
\* step the old history is a prefix of the new one.
C32_HistoryAppendOnly ==
    [][\A sid \in DOMAIN objects \cap DOMAIN objects' :
          IsPrefix(objects[sid].message_history, objects'[sid].message_history)]_vars

\* a session whose history holds a retried prompt and a later exchange, while
\* another session was reaped
C32_Witness ==
    \E sid \in sessions :
        /\ Len(objects[sid].message_history) >= 3
        /\ \E c \in Calls : calls[c].session_id = sid /\ calls[c].attempt >= 2
        /\ expired # {}

\* how many times message m occurs in history h
RECURSIVE Occurrences(_, _)
Occurrences(h, m) ==
    IF h = <<>> THEN 0
    ELSE (IF Head(h) = m THEN 1 ELSE 0) + Occurrences(Tail(h), m)

\* C37: when all the process_request calls made on a session, overlapping or
\* not, have returned successfully on their first attempt, the history holds
\* every prompt and every reply exactly once and the session usage is the sum
\* of the usages reported.
C37_NoLostUpdate ==
    \A sid \in DOMAIN objects :
        (/\ Cardinality(On(sid)) >= 2
         /\ \A c \in On(sid) :
               /\ calls[c].op = "request" /\ calls[c].attempt = 1
               /\ calls[c].pc = "done" /\ calls[c].error = "none")
        => LET h == objects[sid].message_history
           IN /\ Len(h) = 2 * Cardinality(On(sid))
              /\ \A c \in On(sid) :
                    /\ Occurrences(h, [role |-> "user", content |-> calls[c].prompt])
                          = Cardinality({d \in On(sid) : calls[d].prompt = calls[c].prompt})
                    /\ Occurrences(h, [role |-> "assistant", content |-> calls[c].content])
                          = Cardinality({d \in On(sid) : calls[d].content = calls[c].content})
              /\ objects[sid].token_usage.input = SumUsage(On(sid), "input_tokens")
              /\ objects[sid].token_usage.output = SumUsage(On(sid), "output_tokens")
              /\ objects[sid].token_usage.total = SumUsage(On(sid), "total_tokens")

\* two calls that were in flight on one session at the same time have both
\* returned: the two prompts precede the two replies
C37_Witness ==
    \E sid \in sessions :
        /\ On(sid) = Calls
        /\ \A c \in Calls :
              /\ calls[c].op = "request" /\ calls[c].attempt = 1
              /\ calls[c].pc = "done" /\ calls[c].error = "none"
        /\ Len(objects[sid].message_history) = 4
        /\ objects[sid].message_history[2].role = "user"
        /\ objects[sid].message_history[3].role = "assistant"

\* C35: an id enters the map only in a create_session step, which hands out an
\* id no session ever had; so an id that was removed never comes back, whatever
\* an invocation still in flight on that session does afterwards.
C35_OnlyCreateAdds ==
    /\ [](sessions \subseteq 1..uuids)
    /\ [][\A sid \in sessions' \ sessions :
             /\ sid > uuids
             /\ ret' = [error |-> "none", session_id |-> sid]
             /\ calls' = calls]_vars

\* a reap pass removed a session with two requests in flight; one of them has
\* since returned (the append at a later time than the pass shows it), the
\* other is still waiting, and the id is not in the map
C35_Witness ==
    \E sid \in expired \ sessions :
        /\ sid \in DOMAIN objects
        /\ objects[sid].last_activity = now
        /\ Len(objects[sid].message_history) = 3
        /\ calls[1].session_id = sid /\ calls[2].session_id = sid
        /\ \E c \in Calls :
              /\ calls[c].op = "request" /\ calls[c].pc = "done" /\ calls[c].error = "none"
              /\ calls[3 - c].pc = "calling" /\ calls[3 - c].attempt = 1

\* C36: a create_session that raises the capacity error changes nothing: the
\* map, the session objects, the ids handed out and every counter are as
\* before, and the lock it held is released.
C36_RefusalChangesNothing ==
    /\ [][\A user \in Users :
             (CreateLocked(user) /\ ret'.error = "MaxSessions")
             => /\ UNCHANGED <<sessions, objects, uuids, stats>>
                /\ session_lock = "create"]_vars
    /\ [](task_pc["create"] = "idle" => session_lock # "create")
    /\ ((task_pc["create"] = "releasing") ~> (task_pc["create"] = "idle"))

\* create_session has just been refused at a full map and still holds the lock
C36_Witness ==
    /\ task_pc["create"] = "releasing"
    /\ session_lock = "create"
    /\ ret.error = "MaxSessions"
    /\ Cardinality(sessions) = max_concurrent_sessions

\* C33: the reap pass runs under the acquisition of its caller and takes no
\* lock itself: inline in create_session at capacity, under the reaper's own
\* acquisition in the background; so a create_session at capacity ends, with
\* a session or with the capacity error, and gives the lock back.
C33_NoDoubleAcquisition ==
    /\ [][/\ \A user \in Users :
                (CreateLocked(user) /\ AtCapacity(sessions))
                => /\ expired' = Expired
                   /\ session_lock = "create" /\ session_lock' = "create"
                   /\ ret'.error \in {"none", "MaxSessions"}
          /\ ReapLocked => session_lock = "reaper" /\ session_lock' = "reaper"]_vars
    /\ ((task_pc["create"] = "critical" /\ AtCapacity(sessions))
           ~> (task_pc["create"] = "idle" /\ session_lock # "create"))

\* create_session at capacity has run the pass inline, which removed an
\* expired session, and has admitted the new one
C33_Witness ==
    /\ task_pc["create"] = "releasing"
    /\ ret.error = "none"
    /\ expired # {}
    /\ expired \cap sessions = {}
    /\ uuids = MaxCreated
    /\ Cardinality(sessions) = max_concurrent_sessions

\* C38: when the session of a process_request is removed between two of its
\* attempts, the next attempt fails its lookup with session-not-found and
\* calls the provider no more, and the call, though it started on a stored
\* session, ends with session-not-found.
C38_RemovedBetweenAttempts ==
    /\ [][\A c \in Calls :
             (RetryAttempt(c) /\ calls[c].session_id \notin sessions)
             => /\ calls'[c].cause = "SessionNotFound"
                /\ calls'[c].provider_calls = calls[c].provider_calls]_vars
    /\ [](\A c \in Calls :
            (/\ calls[c].op = "request" /\ calls[c].known
             /\ calls[c].pc = "done" /\ calls[c].cause = "SessionNotFound")
            => calls[c].error = "SessionNotFound")

\* C40: once the shutdown flag is raised create_session admits no session, so
\* the store stays empty for ever after shutdown has returned.
C40_NoAdmissionAfterShutdown ==
    /\ [][is_shutting_down => sessions' \subseteq sessions]_vars
    /\ [](shutdown_pc = "done" => sessions = {})

\* C39: shutdown may be invoked more than once, one after the other or
\* overlapping: every invocation returns, and when it returns the flag is
\* raised, the reaper is over and the store is empty, as after a single one.
C39_ShutdownRepeatable ==
    /\ [][(\/ task_pc["lifespan"] # "idle" /\ task_pc'["lifespan"] = "idle"
           \/ shutdown_pc # "done" /\ shutdown_pc' = "done")
          => /\ is_shutting_down'
             /\ cleanup_task' = "done"
             /\ sessions' = {}
             /\ session_lock' = "free"]_vars
    /\ ((task_pc["lifespan"] # "idle") ~> (task_pc["lifespan"] = "idle"))
    /\ ((shutdown_pc = "awaiting") ~> (shutdown_pc = "done"))

\* two invocations overlap: one has cleared a store that held a session and
\* still holds the lock, the other waits for the lock
C39_Witness ==
    /\ shutdown_pc = "releasing"
    /\ task_pc["lifespan"] = "acquiring"
    /\ sessions = {}
    /\ stats.active_sessions > 0

\* C34: unless shutdown is requested, a session that is idle beyond the
\* timeout is eventually out of the store, by the background reaper alone:
\* no caller is assumed ever to create or delete anything.
C34_IdleEventuallyReaped ==
    \A sid \in 1..MaxCreated :
        (sid \in Expired) ~> (sid \notin sessions \/ is_shutting_down)

\* the only session ever created has been removed by a background pass, with
\* no caller at work and no shutdown requested
C34_Witness ==
    /\ cleanup_task = "releasing"
    /\ uuids = 1
    /\ expired = {1}
    /\ sessions = {}
    /\ ~is_shutting_down
    /\ \A t \in Tasks : task_pc[t] = "idle"

====
